---------------------------- MODULE Spec2Model ----------------------------
(***************************************************************************)
(* ATtiny84A temperature controller: the cooperative "mini-RTOS" loop of   *)
(* the TemperatureController sketch (src/unnamed/part_001) and its         *)
(* StatusLeds class (src/software/TemperatureController/StatusLeds.cpp).   *)
(*                                                                         *)
(* Numbers.  Temperatures are fixed-point integers in units of 1/1023 °F   *)
(* (Scale): with that unit the two-segment set-point map is exact for      *)
(* every integer ADC count, and the sensor transfer function is exact up   *)
(* to one floor.  Float rounding of the ATtiny's 32-bit floats is not      *)
(* modelled.  MID_RAW = 511.5 is carried doubled (MID_RAW2 = 1023).        *)
(* millis() is an unsigned long; its width is narrowed to ClockBits bits,  *)
(* and every subtraction of time stamps is taken modulo 2^ClockBits.       *)
(***************************************************************************)
EXTENDS Integers, Sequences, FiniteSets, TLC

VARIABLES
  clock,              \* millis(): the hardware counter, wraps at ClockMod
  uptime,             \* ghost: true milliseconds since reset, never wraps
  now,                \* loop(): unsigned long now
  pc,                 \* position inside loop()
  filteredTempF,      \* float filteredTempF
  heaterOn,           \* bool heaterOn
  inDeadband,         \* bool inDeadband
  setPointF,          \* float setPointF (global)
  lastTempSampleMs,   \* unsigned long lastTempSampleMs
  lastControlMs,      \* unsigned long lastControlMs
  _lastUpdate,        \* StatusLeds::_lastUpdate
  _region,            \* StatusLeds::_region
  _lastRegion,        \* StatusLeds::_lastRegion
  pin,                \* output level of every digital pin (TRUE = HIGH)
  setF,               \* taskUpdateControl: float setF of the last executed tick
  tempF,              \* taskUpdateControl: float tempF of the last executed tick
  heaterWas,          \* ghost: heaterOn on entry to the last executed tick
  ran,                \* ghost: task bodies executed in this loop iteration
  wrote,              \* ghost: pins written by the most recent call
  ledWriteAt,         \* ghost: uptime of the most recent indicator write
  ledWriteGap,        \* ghost: uptime between the two most recent indicator writes
  ranAt,              \* ghost: per task, uptime of its most recent execution
  ranGap,             \* ghost: per task, uptime between its two most recent executions
  rawADC,             \* readSetpointF: uint16_t rawADC of the last read
  sum,                \* readTemperatureC: uint32_t sum of the last burst
  tempFraw,           \* taskSampleTemperature: float tempFraw of the last sample
  drift,              \* ghost: how far the 72-degree heating scenario has got
  spanRaw,            \* readSetpointF: float spanRaw of the last read (doubled)
  staleSince,         \* ghost: uptime since which _region differs from _lastRegion
  lastLedBlinkMs,     \* single-LED sketch: unsigned long lastLedBlinkMs
  ledBlinkState,      \* single-LED sketch: bool ledBlinkState
  ledToggleAt,        \* ghost: uptime of the most recent change of the LED_PIN level
  LastButtonState,    \* button sketch: int LastButtonState
  currMillis,         \* button sketch: unsigned long currMillis
  LastButtonChangeTime, \* button sketch: unsigned long LastButtonChangeTime
  accepted,           \* ghost: changes accepted by the most recent pollTestSwitch call
  ssrChangeAt,        \* ghost: uptime of the most recent accepted change
  ssrChangeGap        \* ghost: uptime between the two most recent accepted changes

vars == <<clock, uptime, now, pc, filteredTempF, heaterOn, inDeadband,
          setPointF, lastTempSampleMs, lastControlMs, _lastUpdate, _region,
          _lastRegion, pin, setF, tempF, heaterWas, ran, wrote, ledWriteAt,
          ledWriteGap, ranAt, ranGap, rawADC, sum, tempFraw, drift, spanRaw,
          staleSince, lastLedBlinkMs, ledBlinkState, ledToggleAt,
          LastButtonState, currMillis, LastButtonChangeTime, accepted,
          ssrChangeAt, ssrChangeGap>>

---------------------------------------------------------------------------
(* Bounds of the model *)

\* width of the millisecond counter in the model (32 on the device)
ClockBits == 12
\* the longest loop() period of the polled scheduler run, in ms
PollMs == 2
\* true time covered by the runs from reset, by the polled run, and by the
\* StatusLeds call sequences, in ms
MaxUptime == 3100
MaxPollUptime == 2800
MaxLedUptime == 700
MaxDriftUptime == 7000
MaxDialUptime == 2500
MaxSenseUptime == 3250
\* true time covered by the polled run with a changing sensor, in ms
MaxShowUptime == 2650
\* true time covered by the StatusLeds call sequences with allOff(), in ms
MaxOffUptime == 450
\* true time covered by the run of the single-LED sketch from reset, in ms
MaxBlinkUptime == 2700
\* true time covered by the run of the button sketch from reset, in ms
MaxButtonUptime == 610
\* the most changes of level of the button line during one pollTestSwitch call
MaxBounces == 2

ClockMod == 2 ^ ClockBits
NoValue == 0 - 1

---------------------------------------------------------------------------
(* Configuration constants of the sketch *)

FullScale == 1023
Scale == FullScale
N_SAMPLES == 8

MIN_SET_F == 50 * Scale
MAX_SET_F == 90 * Scale
MID_SET_F == 72 * Scale
HYST_F == 2 * Scale
SEED_TEMP_F == 72 * Scale
MID_RAW2 == FullScale

TEMP_SAMPLE_MS == 250
CONTROL_UPDATE_MS == 1000
LED_UPDATE_MS == 200

_hysteresisF == HYST_F
_updateIntervalMs == LED_UPDATE_MS

\* selfTest(): eight delay(250) calls before setup() returns
SELFTEST_DELAY_MS == 250
SELFTEST_DELAYS == 8

Pins == {"SSR_PIN", "LED_ABOVE_PIN", "LED_INBAND_PIN", "LED_BELOW_PIN"}
LedPins == {"LED_ABOVE_PIN", "LED_INBAND_PIN", "LED_BELOW_PIN"}
Regions == {"Below", "InBandBelow", "AtSetPoint", "InBandAbove", "Above"}
Tasks == {"sample", "control", "leds"}

---------------------------------------------------------------------------
(* Pure functions *)

\* a signed difference, which goes negative once the counter has wrapped
ElapsedSigned(t, last) == t - last

\* unsigned long subtraction: now - last, modulo the counter width
Elapsed(t, last) == (t - last) % ClockMod

RECURSIVE SumSeq(_)
SumSeq(s) == IF s = <<>> THEN 0 ELSE Head(s) + SumSeq(Tail(s))

\* LM19 voltage in units of 1/(10000*1023) V: (sum/8)*5/1023 V
SensorVolts(total) == total * 6250

\* the clamp without its upper limit, and without its lower limit
ClampVoltsNoUpper(v) == IF v < 2000 * FullScale THEN 2000 * FullScale ELSE v
ClampVoltsNoLower(v) == IF v > 28000 * FullScale THEN 28000 * FullScale ELSE v

ClampVolts(v) ==
  LET lo == 2000 * FullScale     \* 0.2 V
      hi == 28000 * FullScale    \* 2.8 V
      v1 == IF v < lo THEN lo ELSE v
  IN  IF v1 > hi THEN hi ELSE v1

\* the LM19 transfer function and the conversion to Fahrenheit:
\* (1.8663 - v)/0.01169 * 9/5 + 32
TempOfVolts(v) ==
  LET d == 18663 * FullScale - v
  IN  (d * 18) \div 1169 + 32 * Scale

\* readTemperatureC then readTemperatureFOnce
ReadTemperatureF(burst) == TempOfVolts(ClampVolts(SensorVolts(SumSeq(burst))))

\* a segment whose fraction defaults to one when its span is zero
SegmentFullFrac(base, spanTemp, num2, spanRaw2) ==
  base + (IF spanRaw2 > 0 THEN (spanTemp * num2) \div spanRaw2 ELSE spanTemp)

\* a segment whose fraction is taken over the whole dial
SegmentWholeDial(base, spanTemp, num2, spanRaw2) ==
  base + (spanTemp * num2) \div (2 * FullScale)

\* one segment of the set-point map: base + spanTemp * frac,
\* frac = (spanRaw > 0) ? num / spanRaw : 0  (num and spanRaw both doubled)
Segment(base, spanTemp, num2, spanRaw2) ==
  base + (IF spanRaw2 > 0 THEN (spanTemp * num2) \div spanRaw2 ELSE 0)

\* an upper segment that forgets to take MID_RAW off the count
SetpointOfNoOffset(raw) ==
  IF 2 * raw <= MID_RAW2
  THEN Segment(MIN_SET_F, MID_SET_F - MIN_SET_F, 2 * raw, MID_RAW2 - 0)
  ELSE Segment(MID_SET_F, MAX_SET_F - MID_SET_F, 2 * raw,
               2 * FullScale - MID_RAW2)

\* float spanRaw of the segment a count falls in, for a given MID_RAW
\* (count compared doubled, span and MID_RAW carried doubled)
SpanRawOf(raw, midRaw2) ==
  IF 2 * raw <= midRaw2 THEN midRaw2 - 0 ELSE 2 * FullScale - midRaw2

\* readSetpointF for a given MID_RAW
SetpointWith(raw, midRaw2) ==
  IF 2 * raw <= midRaw2
  THEN Segment(MIN_SET_F, MID_SET_F - MIN_SET_F, 2 * raw, midRaw2 - 0)
  ELSE Segment(MID_SET_F, MAX_SET_F - MID_SET_F, 2 * raw - midRaw2,
               2 * FullScale - midRaw2)

\* the value readSetpointF returns for a raw dial count
SetpointOf(raw) == SetpointWith(raw, MID_RAW2)

\* the global setPointF after readSetpointF: only the upper segment stores it
SetPointAfterRead(raw, old) ==
  IF 2 * raw <= MID_RAW2 THEN old ELSE SetpointOf(raw)

\* filteredTempF * (1 - TEMP_ALPHA) + tempFraw * TEMP_ALPHA, TEMP_ALPHA = 0.1
Ema(prev, raw) == (prev * 9 + raw * 1) \div 10

\* the thresholds of the first sketch: a full HYST_F either side
WantOnFullBand(t, s, on) ==
  IF t <= s - HYST_F THEN TRUE
  ELSE IF t >= s + HYST_F THEN FALSE
  ELSE on

\* a controller without the hold region: off unless too cold
WantOnNoHold(t, s, on) == t <= s - HYST_F \div 2

\* taskUpdateControl: the heater decision
WantOn(t, s, on) ==
  LET halfBand == HYST_F \div 2
  IN  IF t <= s - halfBand THEN TRUE
      ELSE IF t >= s + halfBand THEN FALSE
      ELSE on

InDeadband(t, s) ==
  LET halfBand == HYST_F \div 2
  IN  ~(t <= s - halfBand) /\ ~(t >= s + halfBand)

\* a classification that puts the lower band edge itself outside the band
RegionOfOpenBand(t, s) ==
  LET halfBand == _hysteresisF \div 2
  IN  IF t <= s - halfBand THEN "Below"
      ELSE IF t <= s THEN "InBandBelow"
      ELSE IF t <= s + halfBand THEN "InBandAbove"
      ELSE "Above"

\* StatusLeds::setDisplayState: the region of (tempF, setPointF)
RegionOf(t, s) ==
  LET halfBand == _hysteresisF \div 2
  IN  IF t < s - halfBand THEN "Below"
      ELSE IF (t >= s - halfBand) /\ (t <= s) THEN "InBandBelow"
      ELSE IF (t <= s + halfBand) /\ (t >= s) THEN "InBandAbove"
      ELSE IF t > s + halfBand THEN "Above"
      ELSE "AtSetPoint"

\* a switch whose InBandBelow case leaves the below line dark
LedLevelsBandOnly(r) ==
  [p \in LedPins |->
     CASE p = "LED_BELOW_PIN"  -> r = "Below"
       [] p = "LED_INBAND_PIN" -> r \in {"InBandBelow", "AtSetPoint", "InBandAbove"}
       [] p = "LED_ABOVE_PIN"  -> r = "Above"]

\* StatusLeds::updateLEDs: the three lines of a region
LedLevels(r) ==
  [p \in LedPins |->
     CASE p = "LED_BELOW_PIN"  -> r \in {"Below", "InBandBelow"}
       [] p = "LED_INBAND_PIN" -> r \in {"InBandBelow", "AtSetPoint", "InBandAbove"}
       [] p = "LED_ABOVE_PIN"  -> r \in {"InBandAbove", "Above"}]

DigitalWriteAll(levels) == [p \in Pins |-> IF p \in DOMAIN levels THEN levels[p] ELSE pin[p]]

---------------------------------------------------------------------------
(* Inputs: what analogRead may return in a run *)

\* sensor counts of one burst of N_SAMPLES reads: about 67 and 78.5 °F
TempRaws == {335, 320}
\* the sensor is steady during one burst of reads
BurstsOf(raws) == {[i \in 1..N_SAMPLES |-> r] : r \in raws}
\* dial counts: both ends, and the two counts next to MID_RAW
DialRaws == {0, 511, 512, 1023}
\* loop() periods of the run from reset, in ms
LoopDeltas == {50, 200, 250}

---------------------------------------------------------------------------
(* The state after setup() *)

Init ==
  /\ uptime = SELFTEST_DELAYS * SELFTEST_DELAY_MS
  /\ clock = uptime % ClockMod
  /\ now = 0
  /\ pc = "loop"
  /\ filteredTempF = SEED_TEMP_F
  /\ heaterOn = FALSE
  /\ inDeadband = FALSE
  /\ setPointF = 72 * Scale
  /\ lastTempSampleMs = 0
  /\ lastControlMs = 0
  /\ _lastUpdate = 0
  /\ _region = "AtSetPoint"
  /\ _lastRegion = "AtSetPoint"
  /\ pin = [p \in Pins |-> FALSE]
  /\ setF = NoValue
  /\ tempF = NoValue
  /\ heaterWas = FALSE
  /\ ran = {}
  /\ wrote = {}
  /\ ledWriteAt = 0
  /\ ledWriteGap = NoValue
  /\ ranAt = [k \in Tasks |-> NoValue]
  /\ ranGap = [k \in Tasks |-> NoValue]
  /\ rawADC = NoValue
  /\ sum = NoValue
  /\ tempFraw = NoValue
  /\ drift = "warm"
  /\ spanRaw = NoValue
  /\ staleSince = NoValue
  /\ lastLedBlinkMs = 0
  /\ ledBlinkState = FALSE
  /\ ledToggleAt = NoValue
  /\ LastButtonState = 0
  /\ currMillis = 0
  /\ LastButtonChangeTime = 0
  /\ accepted = 0
  /\ ssrChangeAt = NoValue
  /\ ssrChangeGap = NoValue

---------------------------------------------------------------------------
(* loop() and its tasks *)

blinkVars == <<lastLedBlinkMs, ledBlinkState, ledToggleAt>>
buttonVars == <<LastButtonState, currMillis, LastButtonChangeTime, accepted,
                ssrChangeAt, ssrChangeGap>>
ctlVars == <<filteredTempF, heaterOn, inDeadband, setPointF, lastTempSampleMs,
             lastControlMs, setF, tempF, heaterWas, rawADC, sum, tempFraw, drift,
             spanRaw, blinkVars, buttonVars>>
ledVars == <<_lastUpdate, _region, _lastRegion, ledWriteAt, ledWriteGap, staleSince>>
ranVars == <<ran, ranAt, ranGap>>

\* ghost bookkeeping of a task body that executes
MarkRan(k) ==
  /\ ran' = ran \cup {k}
  /\ ranAt' = [ranAt EXCEPT ![k] = uptime]
  /\ ranGap' = [ranGap EXCEPT ![k] =
                  IF ranAt[k] = NoValue THEN NoValue ELSE uptime - ranAt[k]]

\* loop() calling the control task before the sampling task
NextPcControlFirst(p) ==
  CASE p = "loop"    -> "control"
    [] p = "control" -> "sample"
    [] p = "sample"  -> "display"
    [] p = "display" -> "leds"
    [] p = "leds"    -> "loop"

\* the order of the calls in loop()
NextPc(p) ==
  CASE p = "loop"    -> "sample"
    [] p = "sample"  -> "control"
    [] p = "control" -> "display"
    [] p = "display" -> "leds"
    [] p = "leds"    -> "loop"

\* unsigned long now = millis();
LoopBegin(deltas, maxUptime) ==
  /\ pc = "loop"
  /\ \E d \in deltas :
       /\ uptime + d <= maxUptime
       /\ uptime' = uptime + d
       /\ clock' = (clock + d) % ClockMod
  /\ now' = clock'
  /\ ran' = {}
  /\ wrote' = {}
  /\ pc' = NextPc(pc)
  /\ UNCHANGED <<ctlVars, ledVars, pin, ranAt, ranGap>>

\* the sampling gate with <= for <, and with the display's interval
SampleDueLate(t) == ~(Elapsed(t, lastTempSampleMs) <= TEMP_SAMPLE_MS)
SampleDueLedTempo(t) == ~(Elapsed(t, lastTempSampleMs) < LED_UPDATE_MS)
\* the display gate with its operands swapped
LedsDueSwapped(t) == ~(Elapsed(_lastUpdate, t) < _updateIntervalMs)

\* a control gate that opens at the tempo of the sampling task
ControlDueSampleTempo(t) == ~(Elapsed(t, lastControlMs) < TEMP_SAMPLE_MS)

\* a control gate that compares the two timestamps the other way round
ControlDueSwapped(t) == ~(Elapsed(lastControlMs, t) < CONTROL_UPDATE_MS)

\* a display gate that opens at the tempo of the control task
LedsDueControlTempo(t) == ~(Elapsed(t, _lastUpdate) < CONTROL_UPDATE_MS)

\* a display gate that is always open
LedsDueAlways(t) == TRUE

\* the tempo gates
SampleDue(t) == ~(Elapsed(t, lastTempSampleMs) < TEMP_SAMPLE_MS)
ControlDue(t) == ~(Elapsed(t, lastControlMs) < CONTROL_UPDATE_MS)
LedsDue(t) == ~(Elapsed(t, _lastUpdate) < _updateIntervalMs)

TaskSampleTemperature(bursts) ==
  /\ pc = "sample"
  /\ pc' = NextPc(pc)
  /\ IF ~SampleDue(now)
     THEN UNCHANGED <<lastTempSampleMs, filteredTempF, sum, tempFraw, ranVars>>
     ELSE /\ lastTempSampleMs' = now
          /\ \E b \in bursts :
               /\ sum' = SumSeq(b)
               /\ tempFraw' = ReadTemperatureF(b)
          /\ filteredTempF' = Ema(filteredTempF, tempFraw')
          /\ MarkRan("sample")
  /\ wrote' = {}
  /\ UNCHANGED <<clock, uptime, now, heaterOn, inDeadband, setPointF,
                 lastControlMs, setF, tempF, heaterWas, rawADC, drift,
                 spanRaw, blinkVars, buttonVars, ledVars, pin>>

\* the control task also showing the heater on an indicator line
DriveSsrAndLed(on) ==
  /\ pin' = [pin EXCEPT !["SSR_PIN"] = on, !["LED_ABOVE_PIN"] = on]
  /\ wrote' = {"SSR_PIN"}

\* the SSR driven before heaterOn is assigned
DriveSsrStale(on) ==
  /\ pin' = [pin EXCEPT !["SSR_PIN"] = heaterOn]
  /\ wrote' = {"SSR_PIN"}

\* digitalWrite(SSR_PIN, heaterOn ? HIGH : LOW), on every executed tick
DriveSsr(on) ==
  /\ pin' = [pin EXCEPT !["SSR_PIN"] = on]
  /\ wrote' = {"SSR_PIN"}

\* taskUpdateControl past its gate and past readSetpointF, which returned s
ControlBody(s) ==
  /\ lastControlMs' = now
  /\ setF' = s
  /\ tempF' = filteredTempF
  /\ heaterWas' = heaterOn
  /\ heaterOn' = WantOn(tempF', setF', heaterOn)
  /\ inDeadband' = InDeadband(tempF', setF')
  /\ DriveSsr(heaterOn')
  /\ MarkRan("control")

TaskUpdateControl(dials) ==
  /\ pc = "control"
  /\ pc' = NextPc(pc)
  /\ IF ~ControlDue(now)
     THEN /\ UNCHANGED <<lastControlMs, setPointF, setF, tempF, heaterWas,
                         heaterOn, inDeadband, rawADC, spanRaw, pin, ranVars>>
          /\ wrote' = {}
     ELSE /\ \E r \in dials :
               /\ rawADC' = r
               /\ spanRaw' = SpanRawOf(r, MID_RAW2)
               /\ setPointF' = SetPointAfterRead(r, setPointF)
          /\ ControlBody(SetpointOf(rawADC'))
  /\ UNCHANGED <<clock, uptime, now, filteredTempF, lastTempSampleMs, sum,
                 tempFraw, drift, blinkVars, buttonVars, ledVars>>

\* a display that leaves Above only once the band's upper half is left too
SetDisplayStateSticky(t, s) ==
  _region' = IF _region = "Above" /\ RegionOf(t, s) = "InBandAbove"
             THEN "Above" ELSE RegionOf(t, s)

\* StatusLeds::setDisplayState(tempF, setPointF)
SetDisplayState(t, s) == _region' = RegionOf(t, s)

\* ghost bookkeeping of a classification: since when the indicators are behind
MarkStale ==
  staleSince' = IF _region' = _lastRegion THEN NoValue
                ELSE IF staleSince = NoValue THEN uptime
                ELSE staleSince

\* updateLEDs without its early return
NoStatusChangeDropped == FALSE

\* if (_region == _lastRegion) return;
NoStatusChange == _region = _lastRegion

\* StatusLeds::updateLEDs(now)
UpdateLEDs(t) ==
  IF ~LedsDue(t)
  THEN /\ UNCHANGED <<_lastUpdate, _lastRegion, pin, ranVars, ledWriteAt,
                      ledWriteGap, staleSince>>
       /\ wrote' = {}
  ELSE /\ _lastUpdate' = t
       /\ MarkRan("leds")
       /\ IF NoStatusChange
          THEN /\ UNCHANGED <<_lastRegion, pin, ledWriteAt, ledWriteGap, staleSince>>
               /\ wrote' = {}
          ELSE /\ _lastRegion' = _region
               /\ pin' = DigitalWriteAll(LedLevels(_region))
               /\ wrote' = LedPins
               /\ ledWriteAt' = uptime
               /\ ledWriteGap' = uptime - ledWriteAt
               /\ staleSince' = NoValue

\* statusLeds.setDisplayState(filteredTempF, setPointF);
LoopSetDisplayState ==
  /\ pc = "display"
  /\ pc' = NextPc(pc)
  /\ SetDisplayState(filteredTempF, setPointF)
  /\ MarkStale
  /\ wrote' = {}
  /\ UNCHANGED <<clock, uptime, now, ctlVars, _lastUpdate, _lastRegion,
                 ledWriteAt, ledWriteGap, pin, ranVars>>

\* statusLeds.updateLEDs(now);
LoopUpdateLEDs ==
  /\ pc = "leds"
  /\ pc' = NextPc(pc)
  /\ UpdateLEDs(now)
  /\ UNCHANGED <<clock, uptime, now, ctlVars, _region>>

Next ==
  \/ LoopBegin(LoopDeltas, MaxUptime)
  \/ TaskSampleTemperature(BurstsOf(TempRaws))
  \/ TaskUpdateControl(DialRaws)
  \/ LoopSetDisplayState
  \/ LoopUpdateLEDs

Spec == Init /\ [][Next]_vars

---------------------------------------------------------------------------
(* The polled scheduler: loop() comes round every 1..PollMs ms, steady inputs *)

PollDeltas == 1..PollMs
PollTempRaws == {328}
PollDialRaws == {512}

NextPoll ==
  \/ LoopBegin(PollDeltas, MaxPollUptime)
  \/ TaskSampleTemperature(BurstsOf(PollTempRaws))
  \/ TaskUpdateControl(PollDialRaws)
  \/ LoopSetDisplayState
  \/ LoopUpdateLEDs

SpecPoll == Init /\ [][NextPoll]_vars

---------------------------------------------------------------------------
(* One control tick from any temperature, set-point and heater state *)

HalfBand == HYST_F \div 2
\* the points at and next to s - halfBand, s and s + halfBand
BandPoints(s) == {s + k * HalfBand + e : k \in {0 - 1, 0, 1}, e \in {0 - 1, 0, 1}}
TickTemps == UNION {BandPoints(SetpointOf(r)) : r \in DialRaws}
TickStart == SELFTEST_DELAYS * SELFTEST_DELAY_MS + CONTROL_UPDATE_MS
TickDeltas == {50}
MaxTickUptime == TickStart + 2 * 50

\* between two loop iterations: sampling and display have just run, the
\* last control tick is CONTROL_UPDATE_MS old
InitTick ==
  /\ uptime = TickStart
  /\ clock = uptime % ClockMod
  /\ now = clock
  /\ pc = "loop"
  /\ filteredTempF \in TickTemps
  /\ heaterOn \in BOOLEAN
  /\ inDeadband = FALSE
  /\ setPointF = 72 * Scale
  /\ lastTempSampleMs = clock
  /\ lastControlMs = (clock - CONTROL_UPDATE_MS) % ClockMod
  /\ _lastUpdate = clock
  /\ _region = RegionOf(filteredTempF, setPointF)
  /\ _lastRegion = _region
  /\ pin = [p \in Pins |-> IF p = "SSR_PIN" THEN heaterOn ELSE LedLevels(_region)[p]]
  /\ setF = NoValue
  /\ tempF = NoValue
  /\ heaterWas = heaterOn
  /\ ran = {}
  /\ wrote = {}
  /\ ledWriteAt = uptime
  /\ ledWriteGap = NoValue
  /\ ranAt = [k \in Tasks |-> IF k = "control" THEN uptime - CONTROL_UPDATE_MS ELSE uptime]
  /\ ranGap = [k \in Tasks |-> NoValue]
  /\ rawADC = NoValue
  /\ sum = NoValue
  /\ tempFraw = NoValue
  /\ drift = "warm"
  /\ spanRaw = NoValue
  /\ staleSince = NoValue
  /\ lastLedBlinkMs = 0
  /\ ledBlinkState = FALSE
  /\ ledToggleAt = NoValue
  /\ LastButtonState = 0
  /\ currMillis = 0
  /\ LastButtonChangeTime = 0
  /\ accepted = 0
  /\ ssrChangeAt = NoValue
  /\ ssrChangeGap = NoValue

NextTick ==
  \/ LoopBegin(TickDeltas, MaxTickUptime)
  \/ TaskSampleTemperature(BurstsOf(TempRaws))
  \/ TaskUpdateControl(DialRaws)
  \/ LoopSetDisplayState
  \/ LoopUpdateLEDs

SpecTick == InitTick /\ [][NextTick]_vars

---------------------------------------------------------------------------
(* One loop iteration from any last-run stamp and any elapsed time *)

\* last-run stamps: next to zero, next to the wrap, and an interval away from it
GateStamps == {0, 1, TEMP_SAMPLE_MS, ClockMod \div 2, ClockMod - CONTROL_UPDATE_MS,
               ClockMod - TEMP_SAMPLE_MS, ClockMod - LED_UPDATE_MS,
               ClockMod - LED_UPDATE_MS + 1, ClockMod - 2, ClockMod - 1}
GateElapsed == 0..(ClockMod - 1)

\* loop() has just read millis(): every task last ran at stamp L, d ms ago
InitGate ==
  \E L \in GateStamps, d \in GateElapsed :
    /\ uptime = ClockMod + L + d
    /\ clock = uptime % ClockMod
    /\ now = clock
    /\ pc = "sample"
    /\ filteredTempF = SEED_TEMP_F
    /\ heaterOn = FALSE
    /\ inDeadband = FALSE
    /\ setPointF = 72 * Scale
    /\ lastTempSampleMs = L
    /\ lastControlMs = L
    /\ _lastUpdate = L
    /\ _region = "InBandBelow"
    /\ _lastRegion = "InBandBelow"
    /\ pin = [p \in Pins |-> IF p = "SSR_PIN" THEN FALSE ELSE LedLevels("InBandBelow")[p]]
    /\ setF = NoValue
    /\ tempF = NoValue
    /\ heaterWas = FALSE
    /\ ran = {}
    /\ wrote = {}
    /\ ledWriteAt = ClockMod + L
    /\ ledWriteGap = NoValue
    /\ ranAt = [k \in Tasks |-> ClockMod + L]
    /\ ranGap = [k \in Tasks |-> NoValue]
    /\ rawADC = NoValue
    /\ sum = NoValue
    /\ tempFraw = NoValue
    /\ drift = "warm"
    /\ spanRaw = NoValue
    /\ staleSince = NoValue
    /\ lastLedBlinkMs = 0
    /\ ledBlinkState = FALSE
    /\ ledToggleAt = NoValue
    /\ LastButtonState = 0
    /\ currMillis = 0
    /\ LastButtonChangeTime = 0
    /\ accepted = 0
    /\ ssrChangeAt = NoValue
    /\ ssrChangeGap = NoValue

NextGate ==
  \/ TaskSampleTemperature(BurstsOf(PollTempRaws))
  \/ TaskUpdateControl(PollDialRaws)
  \/ LoopSetDisplayState
  \/ LoopUpdateLEDs

SpecGate == InitGate /\ [][NextGate]_vars

---------------------------------------------------------------------------
(* A StatusLeds object called in any order, with a clock that never goes back *)

LedSetpoints == {72 * Scale}
LedTemps == {72 * Scale - HalfBand - 1, 72 * Scale - 1, 72 * Scale,
             72 * Scale + 1, 72 * Scale + HalfBand + 1}
LedDeltas == {50, 200}

\* the constructor and begin(), at reset
InitLeds ==
  /\ uptime = 0
  /\ clock = 0
  /\ now = 0
  /\ pc = "loop"
  /\ filteredTempF = SEED_TEMP_F
  /\ heaterOn = FALSE
  /\ inDeadband = FALSE
  /\ setPointF = 72 * Scale
  /\ lastTempSampleMs = 0
  /\ lastControlMs = 0
  /\ _lastUpdate = 0
  /\ _region = "AtSetPoint"
  /\ _lastRegion = "AtSetPoint"
  /\ pin = [p \in Pins |-> FALSE]
  /\ setF = NoValue
  /\ tempF = NoValue
  /\ heaterWas = FALSE
  /\ ran = {}
  /\ wrote = {}
  /\ ledWriteAt = 0
  /\ ledWriteGap = NoValue
  /\ ranAt = [k \in Tasks |-> NoValue]
  /\ ranGap = [k \in Tasks |-> NoValue]
  /\ rawADC = NoValue
  /\ sum = NoValue
  /\ tempFraw = NoValue
  /\ drift = "warm"
  /\ spanRaw = NoValue
  /\ staleSince = NoValue
  /\ lastLedBlinkMs = 0
  /\ ledBlinkState = FALSE
  /\ ledToggleAt = NoValue
  /\ LastButtonState = 0
  /\ currMillis = 0
  /\ LastButtonChangeTime = 0
  /\ accepted = 0
  /\ ssrChangeAt = NoValue
  /\ ssrChangeGap = NoValue

\* time passes between two calls
ClockAdvance ==
  /\ \E d \in LedDeltas :
       /\ uptime + d <= MaxLedUptime
       /\ uptime' = uptime + d
       /\ clock' = (clock + d) % ClockMod
  /\ wrote' = {}
  /\ UNCHANGED <<now, pc, ctlVars, ledVars, pin, ranVars>>

CallSetDisplayState ==
  /\ \E t \in LedTemps, s \in LedSetpoints : SetDisplayState(t, s)
  /\ MarkStale
  /\ wrote' = {}
  /\ UNCHANGED <<clock, uptime, now, pc, ctlVars, _lastUpdate, _lastRegion,
                 ledWriteAt, ledWriteGap, pin, ranVars>>

CallUpdateLEDs ==
  /\ now' = clock
  /\ UpdateLEDs(clock)
  /\ UNCHANGED <<clock, uptime, pc, ctlVars, _region>>

NextLeds == ClockAdvance \/ CallSetDisplayState \/ CallUpdateLEDs

SpecLeds == InitLeds /\ [][NextLeds]_vars

\* StatusLeds::allOff(); the ghost ledWriteAt notes the time of the call
CallAllOff ==
  /\ pin' = DigitalWriteAll([p \in LedPins |-> FALSE])
  /\ wrote' = LedPins
  /\ ledWriteAt' = uptime
  /\ UNCHANGED <<clock, uptime, now, pc, ctlVars, _lastUpdate, _region,
                 _lastRegion, ledWriteGap, staleSince, ranVars>>

ClockAdvanceOff ==
  /\ \E d \in LedDeltas :
       /\ uptime + d <= MaxOffUptime
       /\ uptime' = uptime + d
       /\ clock' = (clock + d) % ClockMod
  /\ wrote' = {}
  /\ UNCHANGED <<now, pc, ctlVars, ledVars, pin, ranVars>>

NextLedsOff == ClockAdvanceOff \/ CallSetDisplayState \/ CallUpdateLEDs \/ CallAllOff

SpecLedsOff == InitLeds /\ [][NextLedsOff]_vars

---------------------------------------------------------------------------
(* Heating up around a set-point of 72: the filter drifts, the dial reads 72 *)

\* what readSetpointF returns in the scenario
DriftSetF == 72 * Scale
\* filtered temperatures from 69 to 74, with the points next to 71 and 73
DriftTemps == {69 * Scale, 70 * Scale, 71 * Scale - 1, 71 * Scale, 71 * Scale + 1,
               72 * Scale, 73 * Scale - 1, 73 * Scale, 73 * Scale + 1, 74 * Scale}
DriftDeltas == {500, 1000}

\* ghost: "warm" until a tick sees 71 or less, "cold" from then until a
\* later tick sees 73 or more, "hot" after that
DriftPhase(t, was) ==
  IF t <= 71 * Scale THEN "cold"
  ELSE IF t >= 73 * Scale /\ was # "warm" THEN "hot"
  ELSE was

\* the filter has moved to some temperature by the time of this iteration
DriftSample ==
  /\ pc = "sample"
  /\ pc' = NextPc(pc)
  /\ filteredTempF' \in DriftTemps
  /\ wrote' = {}
  /\ UNCHANGED <<clock, uptime, now, heaterOn, inDeadband, setPointF,
                 lastTempSampleMs, lastControlMs, setF, tempF, heaterWas,
                 rawADC, sum, tempFraw, drift, spanRaw, blinkVars, buttonVars, ledVars,
                 pin, ranVars>>

\* taskUpdateControl with readSetpointF returning DriftSetF
DriftControl ==
  /\ pc = "control"
  /\ pc' = NextPc(pc)
  /\ IF ~ControlDue(now)
     THEN /\ UNCHANGED <<lastControlMs, setF, tempF, heaterWas, heaterOn,
                         inDeadband, drift, pin, ranVars>>
          /\ wrote' = {}
     ELSE /\ ControlBody(DriftSetF)
          /\ drift' = DriftPhase(filteredTempF, drift)
  /\ UNCHANGED <<clock, uptime, now, filteredTempF, lastTempSampleMs, setPointF,
                 rawADC, sum, tempFraw, spanRaw, blinkVars, buttonVars, ledVars>>

NextDrift ==
  \/ LoopBegin(DriftDeltas, MaxDriftUptime)
  \/ DriftSample
  \/ DriftControl
  \/ LoopSetDisplayState
  \/ LoopUpdateLEDs

SpecDrift == Init /\ [][NextDrift]_vars

---------------------------------------------------------------------------
(* The first control tick after setup(), for every count the dial can read *)

AllDialRaws == 0..FullScale
DialDeltas == {250}

NextDial ==
  \/ LoopBegin(DialDeltas, MaxDialUptime)
  \/ TaskSampleTemperature(BurstsOf(PollTempRaws))
  \/ TaskUpdateControl(AllDialRaws)
  \/ LoopSetDisplayState
  \/ LoopUpdateLEDs

SpecDial == Init /\ [][NextDial]_vars

---------------------------------------------------------------------------
(* Sampling with the sensor line anywhere between the rails *)

\* bursts of N_SAMPLES reads: both rails, and either side of each clamp limit
\* (0.2 V lies between the sums 327 and 328, 2.8 V between 4583 and 4584)
SenseBursts ==
  BurstsOf({0, 41, 573, 1023})
    \cup {[i \in 1..N_SAMPLES |-> IF i = 1 THEN 40 ELSE 41],
          [i \in 1..N_SAMPLES |-> IF i = 1 THEN 572 ELSE 573],
          [i \in 1..N_SAMPLES |-> IF i <= 4 THEN 0 ELSE 1023]}
SenseDeltas == {250}

NextSense ==
  \/ LoopBegin(SenseDeltas, MaxSenseUptime)
  \/ TaskSampleTemperature(SenseBursts)
  \/ TaskUpdateControl(PollDialRaws)
  \/ LoopSetDisplayState
  \/ LoopUpdateLEDs

SpecSense == Init /\ [][NextSense]_vars

---------------------------------------------------------------------------
(* readSetpointF with MID_RAW anywhere on the dial, both ends included *)

\* MID_RAW (doubled) at the bottom, where the sketch has it, and at the top
SegMidRaws2 == {0, MID_RAW2, 2 * FullScale}
\* counts next to the ends and the middle of the dial, and the first
\* uint16_t value above it
SegRaws == {0, 1, 2, 510, 511, 512, 513, FullScale - 1, FullScale, FullScale + 1}

ReadSetpointWith ==
  /\ \E r \in SegRaws, m \in SegMidRaws2 :
       /\ rawADC' = r
       /\ spanRaw' = SpanRawOf(r, m)
       /\ setF' = SetpointWith(r, m)
       /\ setPointF' = IF 2 * r <= m THEN setPointF ELSE setF'
  /\ wrote' = {}
  /\ UNCHANGED <<clock, uptime, now, pc, filteredTempF, heaterOn, inDeadband,
                 lastTempSampleMs, lastControlMs, tempF, heaterWas,
                 sum, tempFraw, drift, blinkVars, buttonVars, ledVars, pin, ranVars>>

NextSegment == ReadSetpointWith

SpecSegment == Init /\ [][NextSegment]_vars

---------------------------------------------------------------------------
(* The polled scheduler with a sensor that changes between bursts *)

NextShow ==
  \/ LoopBegin(PollDeltas, MaxShowUptime)
  \/ TaskSampleTemperature(BurstsOf(TempRaws))
  \/ TaskUpdateControl(PollDialRaws)
  \/ LoopSetDisplayState
  \/ LoopUpdateLEDs

SpecShow == Init /\ [][NextShow]_vars

---------------------------------------------------------------------------
(* The scheduler run without end: loop() keeps coming round, the counter
   wraps, and true time is kept modulo the counter's period *)

\* loop() periods of the endless run, in ms
LiveDeltas == {128, 256}

LoopBeginLive ==
  /\ pc = "loop"
  /\ \E d \in LiveDeltas :
       /\ uptime' = (uptime + d) % ClockMod
       /\ clock' = (clock + d) % ClockMod
  /\ now' = clock'
  /\ ran' = {}
  /\ wrote' = {}
  /\ pc' = NextPc(pc)
  /\ UNCHANGED <<ctlVars, ledVars, pin, ranAt, ranGap>>

NextLive ==
  \/ LoopBeginLive
  \/ TaskSampleTemperature(BurstsOf(PollTempRaws))
  \/ TaskUpdateControl(PollDialRaws)
  \/ LoopSetDisplayState
  \/ LoopUpdateLEDs

\* the Arduino core calls loop() again whenever it returns
SpecLive == Init /\ [][NextLive]_vars /\ WF_vars(NextLive)

---------------------------------------------------------------------------
(* The earlier StatusLeds class with three regions, called in any order *)

Regions3 == {"Below", "InBand", "Above"}

\* StatusLeds::setDisplayState, three regions
RegionOf3(t, s) ==
  LET halfBand == _hysteresisF \div 2
  IN  IF t < s - halfBand THEN "Below"
      ELSE IF t > s + halfBand THEN "Above"
      ELSE "InBand"

\* StatusLeds::updateLEDs, three regions: the line of a region
LedLevels3(r) ==
  [p \in LedPins |->
     CASE p = "LED_BELOW_PIN"  -> r = "Below"
       [] p = "LED_INBAND_PIN" -> r = "InBand"
       [] p = "LED_ABOVE_PIN"  -> r = "Above"]

\* StatusLeds::updateLEDs(now), three regions
UpdateLEDs3(t) ==
  IF ~LedsDue(t)
  THEN /\ UNCHANGED <<_lastUpdate, _lastRegion, pin, ranVars, ledWriteAt,
                      ledWriteGap, staleSince>>
       /\ wrote' = {}
  ELSE /\ _lastUpdate' = t
       /\ MarkRan("leds")
       /\ IF NoStatusChange
          THEN /\ UNCHANGED <<_lastRegion, pin, ledWriteAt, ledWriteGap, staleSince>>
               /\ wrote' = {}
          ELSE /\ _lastRegion' = _region
               /\ pin' = DigitalWriteAll(LedLevels3(_region))
               /\ wrote' = LedPins
               /\ ledWriteAt' = uptime
               /\ ledWriteGap' = uptime - ledWriteAt
               /\ staleSince' = NoValue

\* the constructor and begin(), at reset
InitLeds3 ==
  /\ uptime = 0
  /\ clock = 0
  /\ now = 0
  /\ pc = "loop"
  /\ filteredTempF = SEED_TEMP_F
  /\ heaterOn = FALSE
  /\ inDeadband = FALSE
  /\ setPointF = 72 * Scale
  /\ lastTempSampleMs = 0
  /\ lastControlMs = 0
  /\ _lastUpdate = 0
  /\ _region = "InBand"
  /\ _lastRegion = "InBand"
  /\ pin = [p \in Pins |-> FALSE]
  /\ setF = NoValue
  /\ tempF = NoValue
  /\ heaterWas = FALSE
  /\ ran = {}
  /\ wrote = {}
  /\ ledWriteAt = 0
  /\ ledWriteGap = NoValue
  /\ ranAt = [k \in Tasks |-> NoValue]
  /\ ranGap = [k \in Tasks |-> NoValue]
  /\ rawADC = NoValue
  /\ sum = NoValue
  /\ tempFraw = NoValue
  /\ drift = "warm"
  /\ spanRaw = NoValue
  /\ staleSince = NoValue
  /\ lastLedBlinkMs = 0
  /\ ledBlinkState = FALSE
  /\ ledToggleAt = NoValue
  /\ LastButtonState = 0
  /\ currMillis = 0
  /\ LastButtonChangeTime = 0
  /\ accepted = 0
  /\ ssrChangeAt = NoValue
  /\ ssrChangeGap = NoValue

\* setDisplayState(t, s); the ghost ran notes that the classifier has run
CallSetDisplayState3 ==
  /\ \E t \in LedTemps, s \in LedSetpoints : _region' = RegionOf3(t, s)
  /\ MarkStale
  /\ ran' = ran \cup {"display"}
  /\ wrote' = {}
  /\ UNCHANGED <<clock, uptime, now, pc, ctlVars, _lastUpdate, _lastRegion,
                 ledWriteAt, ledWriteGap, pin, ranAt, ranGap>>

CallUpdateLEDs3 ==
  /\ now' = clock
  /\ UpdateLEDs3(clock)
  /\ UNCHANGED <<clock, uptime, pc, ctlVars, _region>>

NextLeds3 == ClockAdvance \/ CallSetDisplayState3 \/ CallUpdateLEDs3

SpecLeds3 == InitLeds3 /\ [][NextLeds3]_vars

---------------------------------------------------------------------------
(* The single-LED sketch: one status LED, solid or blinking *)

LED_BLINK_MS == 500

BlinkPins == {"SSR_PIN", "LED_PIN"}

\* the sensor is steady; the dial is at either end or in the middle
BlinkTempRaws == {328}
BlinkDialRaws == {0, 512, 1023}

\* a blink gate that opens at the tempo of the sampling task
BlinkDueSampleTempo(t) == Elapsed(t, lastLedBlinkMs) >= TEMP_SAMPLE_MS

BlinkDue(t) == Elapsed(t, lastLedBlinkMs) >= LED_BLINK_MS

\* taskUpdateControl of the sketch: the thresholds are HYST_F off the setpoint
BlinkWantOn(t, s, on) ==
  IF t <= s - HYST_F THEN TRUE
  ELSE IF t >= s + HYST_F THEN FALSE
  ELSE on

BlinkInDeadband(t, s) == ~(t <= s - HYST_F) /\ ~(t >= s + HYST_F)

\* globals and setup(): loop() starts right after reset
InitBlink ==
  /\ uptime = 0
  /\ clock = 0
  /\ now = 0
  /\ pc = "loop"
  /\ filteredTempF = SEED_TEMP_F
  /\ heaterOn = FALSE
  /\ inDeadband = FALSE
  /\ setPointF = NoValue
  /\ lastTempSampleMs = 0
  /\ lastControlMs = 0
  /\ _lastUpdate = 0
  /\ _region = "AtSetPoint"
  /\ _lastRegion = "AtSetPoint"
  /\ pin = [p \in BlinkPins |-> FALSE]
  /\ setF = NoValue
  /\ tempF = NoValue
  /\ heaterWas = FALSE
  /\ ran = {}
  /\ wrote = {}
  /\ ledWriteAt = 0
  /\ ledWriteGap = NoValue
  /\ ranAt = [k \in Tasks |-> NoValue]
  /\ ranGap = [k \in Tasks |-> NoValue]
  /\ rawADC = NoValue
  /\ sum = NoValue
  /\ tempFraw = NoValue
  /\ drift = "warm"
  /\ spanRaw = NoValue
  /\ staleSince = NoValue
  /\ lastLedBlinkMs = 0
  /\ ledBlinkState = FALSE
  /\ ledToggleAt = NoValue
  /\ LastButtonState = 0
  /\ currMillis = 0
  /\ LastButtonChangeTime = 0
  /\ accepted = 0
  /\ ssrChangeAt = NoValue
  /\ ssrChangeGap = NoValue

BlinkTaskUpdateControl ==
  /\ pc = "control"
  /\ pc' = "blink"
  /\ IF ~ControlDue(now)
     THEN /\ UNCHANGED <<lastControlMs, setF, tempF, heaterWas, heaterOn,
                         inDeadband, rawADC, spanRaw, pin, ranVars>>
          /\ wrote' = {}
     ELSE /\ lastControlMs' = now
          /\ \E r \in BlinkDialRaws :
               /\ rawADC' = r
               /\ spanRaw' = SpanRawOf(r, MID_RAW2)
          /\ setF' = SetpointOf(rawADC')
          /\ tempF' = filteredTempF
          /\ heaterWas' = heaterOn
          /\ heaterOn' = BlinkWantOn(tempF', setF', heaterOn)
          /\ inDeadband' = BlinkInDeadband(tempF', setF')
          /\ DriveSsr(heaterOn')
          /\ MarkRan("control")
  /\ UNCHANGED <<clock, uptime, now, filteredTempF, setPointF, lastTempSampleMs,
                 sum, tempFraw, drift, blinkVars, buttonVars, ledVars>>

\* taskUpdateLed(now); the ghost ledToggleAt is the time the LED last changed level
TaskUpdateLed ==
  /\ pc = "blink"
  /\ pc' = "loop"
  /\ IF ~inDeadband
     THEN /\ pin' = [pin EXCEPT !["LED_PIN"] = heaterOn]
          /\ wrote' = {"LED_PIN"}
          /\ UNCHANGED <<lastLedBlinkMs, ledBlinkState>>
     ELSE IF BlinkDue(now)
          THEN /\ lastLedBlinkMs' = now
               /\ ledBlinkState' = ~ledBlinkState
               /\ pin' = [pin EXCEPT !["LED_PIN"] = ledBlinkState']
               /\ wrote' = {"LED_PIN"}
          ELSE /\ UNCHANGED <<lastLedBlinkMs, ledBlinkState, pin>>
               /\ wrote' = {}
  /\ ledToggleAt' = IF pin'["LED_PIN"] # pin["LED_PIN"] THEN uptime ELSE ledToggleAt
  /\ UNCHANGED <<clock, uptime, now, filteredTempF, heaterOn, inDeadband,
                 setPointF, lastTempSampleMs, lastControlMs, setF, tempF,
                 heaterWas, rawADC, sum, tempFraw, drift, spanRaw, ledVars,
                 ranVars, buttonVars>>

NextBlink ==
  \/ LoopBegin(LoopDeltas, MaxBlinkUptime)
  \/ TaskSampleTemperature(BurstsOf(BlinkTempRaws))
  \/ BlinkTaskUpdateControl
  \/ TaskUpdateLed

SpecBlink == InitBlink /\ [][NextBlink]_vars

---------------------------------------------------------------------------
(* The button sketch: a push button switches the SSR, with a debounce *)

SETUP_DELAY_MS == 500
POLL_READS == 15
DEBOUNCE_MS == 50

ButtonSketchPins == {"SSR_outPin"}

\* time between two calls of pollTestSwitch, in ms
ButtonDeltas == {0, 25, 26}

\* the levels of ButtonPin at the reads of one call (1 = HIGH, released):
\* the line bounces at most MaxBounces times during the call
\* cuts[j] is the last read before the j-th change, POLL_READS for no change
BounceCuts ==
  {cuts \in [1..MaxBounces -> 1..POLL_READS] :
     \A j \in 1..(MaxBounces - 1) : cuts[j] <= cuts[j + 1]}
ButtonReads ==
  {[k \in 1..POLL_READS |->
      (first + Cardinality({j \in 1..MaxBounces : cuts[j] < k})) % 2] :
     first \in {0, 1}, cuts \in BounceCuts}

\* a debounce that also lets a change through exactly DEBOUNCE_MS after the last
DebounceOverInclusive(t, last) == Elapsed(t, last) >= DEBOUNCE_MS

DebounceOver(t, last) == Elapsed(t, last) > DEBOUNCE_MS

\* one pass of the for loop of pollTestSwitch
PollRead(st, level, t) ==
  LET state == IF level = 0 THEN 1 ELSE 0
  IN  IF state # st.last /\ DebounceOver(t, st.time)
      THEN [last |-> state, time |-> t, ssr |-> (state = 1), n |-> st.n + 1]
      ELSE st

RECURSIVE PollReads(_, _, _)
PollReads(st, reads, t) ==
  IF reads = <<>> THEN st
  ELSE PollReads(PollRead(st, Head(reads), t), Tail(reads), t)

\* globals and setup(): the output line is LOW after pinMode
InitButton ==
  /\ uptime = SETUP_DELAY_MS
  /\ clock = SETUP_DELAY_MS
  /\ now = 0
  /\ pc = "loop"
  /\ filteredTempF = SEED_TEMP_F
  /\ heaterOn = FALSE
  /\ inDeadband = FALSE
  /\ setPointF = NoValue
  /\ lastTempSampleMs = 0
  /\ lastControlMs = 0
  /\ _lastUpdate = 0
  /\ _region = "AtSetPoint"
  /\ _lastRegion = "AtSetPoint"
  /\ pin = [p \in ButtonSketchPins |-> FALSE]
  /\ setF = NoValue
  /\ tempF = NoValue
  /\ heaterWas = FALSE
  /\ ran = {}
  /\ wrote = {}
  /\ ledWriteAt = 0
  /\ ledWriteGap = NoValue
  /\ ranAt = [k \in Tasks |-> NoValue]
  /\ ranGap = [k \in Tasks |-> NoValue]
  /\ rawADC = NoValue
  /\ sum = NoValue
  /\ tempFraw = NoValue
  /\ drift = "warm"
  /\ spanRaw = NoValue
  /\ staleSince = NoValue
  /\ lastLedBlinkMs = 0
  /\ ledBlinkState = FALSE
  /\ ledToggleAt = NoValue
  /\ LastButtonState = 0
  /\ currMillis = 0
  /\ LastButtonChangeTime = 0
  /\ accepted = 0
  /\ ssrChangeAt = NoValue
  /\ ssrChangeGap = NoValue

\* loop(): one call of pollTestSwitch, some time after the previous one
PollTestSwitch ==
  /\ \E d \in ButtonDeltas :
       /\ uptime + d <= MaxButtonUptime
       /\ uptime' = uptime + d
       /\ clock' = (clock + d) % ClockMod
  /\ currMillis' = clock'
  /\ \E reads \in ButtonReads :
       LET st == PollReads([last |-> LastButtonState, time |-> LastButtonChangeTime,
                            ssr |-> pin["SSR_outPin"], n |-> 0], reads, currMillis')
       IN  /\ LastButtonState' = st.last
           /\ LastButtonChangeTime' = st.time
           /\ pin' = [pin EXCEPT !["SSR_outPin"] = st.ssr]
           /\ accepted' = st.n
           /\ wrote' = IF st.n > 0 THEN {"SSR_outPin"} ELSE {}
           /\ ssrChangeAt' = IF st.n > 0 THEN uptime' ELSE ssrChangeAt
           /\ ssrChangeGap' = IF st.n > 0 /\ ssrChangeAt # NoValue
                               THEN uptime' - ssrChangeAt ELSE ssrChangeGap
  /\ UNCHANGED <<now, pc, filteredTempF, heaterOn, inDeadband, setPointF,
                 lastTempSampleMs, lastControlMs, setF, tempF, heaterWas,
                 rawADC, sum, tempFraw, drift, spanRaw, blinkVars, ledVars,
                 ran, ranAt, ranGap>>

NextButton == PollTestSwitch

SpecButton == InitButton /\ [][NextButton]_vars

---------------------------------------------------------------------------
(* Claims *)

\* C1: one executed control tick leaves the heater ON if t <= s - HYST_F/2,
\* OFF if t >= s + HYST_F/2, and as it was if t lies strictly inside the band
\* (t the filtered temperature, s the set-point the tick read).
C1_Hysteresis ==
  "control" \in ran =>
    /\ tempF = filteredTempF
    /\ (tempF <= setF - HalfBand => heaterOn = TRUE)
    /\ (tempF >= setF + HalfBand => heaterOn = FALSE)
    /\ ((setF - HalfBand < tempF /\ tempF < setF + HalfBand) => heaterOn = heaterWas)

C1_HoldsOnInBand ==
  /\ "control" \in ran
  /\ heaterWas /\ heaterOn
  /\ setF - HalfBand < tempF /\ tempF < setF + HalfBand

\* C2: after every executed control tick the global set-point the display
\* classifies against equals the set-point the controller used in that tick.
C2_DisplayUsesControlSetpoint ==
  "control" \in ran => setPointF = setF

\* C3: updateLEDs rewrites the indicator lines only when at least
\* updateInterval ms have passed since the last indicator write, so two
\* writes are at least updateInterval apart; no write happens before
\* updateInterval, and with calls at 0, 50 and 250 ms only, the call at
\* 250 ms with region InBandBelow is the one that writes.
C3_DebouncedWrites ==
  /\ [](uptime < LED_UPDATE_MS =>
          (ledWriteGap = NoValue /\ \A p \in LedPins : pin[p] = FALSE))
  /\ [][/\ (wrote' = LedPins => uptime' - ledWriteAt >= LED_UPDATE_MS)
        /\ (/\ CallUpdateLEDs
            /\ uptime = 250
            /\ _lastUpdate = 0
            /\ _region = "InBandBelow"
            /\ _lastRegion = "AtSetPoint")
           => (wrote' = LedPins /\ ledWriteAt' = 250)]_vars

C3_WriteAt250 ==
  /\ wrote = LedPins
  /\ ledWriteAt = 250
  /\ ledWriteGap = 250
  /\ _lastRegion = "InBandBelow"

\* C4: every indicator write happens with the region different from the
\* region of the previous write (_lastRegion), and a call in which the region
\* equals _lastRegion writes no indicator line.
C4_NoRedundantWrite ==
  [][/\ (wrote' \cap LedPins # {} => (_region # _lastRegion /\ _lastRegion' = _region))
     /\ (_region = _lastRegion =>
           (wrote' \cap LedPins = {} /\ \A p \in LedPins : pin'[p] = pin[p]))]_vars

C4_GatePassedWithoutWrite ==
  /\ _lastUpdate = clock
  /\ uptime >= 2 * LED_UPDATE_MS
  /\ wrote = {}
  /\ _region = _lastRegion
  /\ _lastRegion # "AtSetPoint"
  /\ ledWriteAt < uptime

\* C5: controller and display agree on the band boundaries: a tick forces
\* the heater ON exactly when (temp, setpoint) is classified Below, OFF exactly
\* when it is classified Above, and holds exactly when it is an in-band region.
C5_BandBoundariesAgree ==
  "control" \in ran =>
    LET r == RegionOf(tempF, setF)
    IN  /\ (~inDeadband /\ heaterOn) <=> (r = "Below")
        /\ (~inDeadband /\ ~heaterOn) <=> (r = "Above")
        /\ inDeadband <=> (r \in {"InBandBelow", "AtSetPoint", "InBandAbove"})

\* C6: the SSR output always equals heaterOn (LOW and false after setup), and
\* every executed control tick writes the SSR pin, changed or not.
C6_SsrMatchesHeater ==
  /\ pin["SSR_PIN"] = heaterOn
  /\ (pc = "display" /\ "control" \in ran) => "SSR_PIN" \in wrote
  /\ (pc = "display" /\ "control" \notin ran) => "SSR_PIN" \notin wrote

C6_RewrittenUnchanged ==
  /\ pc = "display"
  /\ "control" \in ran
  /\ heaterOn /\ heaterWas
  /\ "SSR_PIN" \in wrote
  /\ pin["SSR_PIN"]

\* C7: in every loop iteration each gated task runs its body if and only if
\* now - lastRun >= interval, and a body that runs sets lastRun to that now;
\* a body that does not run leaves lastRun alone.
C7_GatedExecution ==
  [][/\ pc = "sample" =>
          /\ ("sample" \in ran') <=> (Elapsed(now, lastTempSampleMs) >= TEMP_SAMPLE_MS)
          /\ lastTempSampleMs' = IF "sample" \in ran' THEN now ELSE lastTempSampleMs
     /\ pc = "control" =>
          /\ ("control" \in ran') <=> (Elapsed(now, lastControlMs) >= CONTROL_UPDATE_MS)
          /\ lastControlMs' = IF "control" \in ran' THEN now ELSE lastControlMs
     /\ pc = "leds" =>
          /\ ("leds" \in ran') <=> (Elapsed(now, _lastUpdate) >= LED_UPDATE_MS)
          /\ _lastUpdate' = IF "leds" \in ran' THEN now ELSE _lastUpdate]_vars

C7_RanExactlyAtInterval ==
  /\ pc = "control"
  /\ "sample" \in ran
  /\ ranGap["sample"] = TEMP_SAMPLE_MS
  /\ lastTempSampleMs = now

\* C8: polled every 1..PollMs ms, two consecutive executions of the 250 ms
\* sampling task are never less than 250 ms and never more than 250 + PollMs
\* ms apart, and no poll leaves the task unrun for longer than that.
C8_OncePerWindow ==
  /\ ranGap["sample"] # NoValue =>
       (ranGap["sample"] >= TEMP_SAMPLE_MS /\ ranGap["sample"] <= TEMP_SAMPLE_MS + PollMs)
  /\ ranAt["sample"] # NoValue => uptime - ranAt["sample"] <= TEMP_SAMPLE_MS + PollMs
  /\ (ranAt["sample"] # NoValue /\ pc # "sample") =>
       uptime - ranAt["sample"] < TEMP_SAMPLE_MS

C8_JitteredWindow ==
  /\ "sample" \in ran
  /\ ranGap["sample"] = TEMP_SAMPLE_MS + 1

\* C9: with stamps taken modulo 2^w, for every last-run stamp and every true
\* elapsed time d < 2^w a gate opens if and only if d >= interval, also when
\* the counter has wrapped past zero since the stamp.
C9_GateToleratesWrap ==
  [][/\ (pc = "sample" /\ uptime - ranAt["sample"] < ClockMod) =>
          (("sample" \in ran') <=> (uptime - ranAt["sample"] >= TEMP_SAMPLE_MS))
     /\ (pc = "control" /\ uptime - ranAt["control"] < ClockMod) =>
          (("control" \in ran') <=> (uptime - ranAt["control"] >= CONTROL_UPDATE_MS))
     /\ (pc = "leds" /\ uptime - ranAt["leds"] < ClockMod) =>
          (("leds" \in ran') <=> (uptime - ranAt["leds"] >= LED_UPDATE_MS))]_vars

C9_RanAcrossWrap ==
  /\ pc = "loop"
  /\ ran = Tasks
  /\ ranGap["control"] = CONTROL_UPDATE_MS
  /\ now < (uptime - ranGap["control"]) % ClockMod

\* C10: the tasks of one iteration run in the order sample, control, display
\* with one now: a control tick reads the filteredTempF that the same
\* iteration's sampling produced, and the region of that iteration is
\* classified from the value the controller read.
C10_OrderAndSameNow ==
  /\ "sample" \in ran => lastTempSampleMs = now
  /\ "control" \in ran => (lastControlMs = now /\ tempF = filteredTempF)
  /\ "leds" \in ran => _lastUpdate = now
  /\ pc = "leds" => _region = RegionOf(filteredTempF, setPointF)
  /\ (pc = "leds" /\ "control" \in ran) => _region = RegionOf(tempF, setPointF)

C10_SampledThenControlled ==
  /\ pc = "loop"
  /\ ran = Tasks
  /\ tempF = filteredTempF
  /\ tempF # SEED_TEMP_F
  /\ _region = RegionOf(tempF, setPointF)

\* C11: after setDisplayState(tempF, setPointF) the region is AtSetPoint
\* exactly when tempF equals setPointF.
C11_AtSetPointOnEquality ==
  pc = "leds" => (_region = "AtSetPoint" <=> filteredTempF = setPointF)

\* C12: after setDisplayState(t, s), with hb half the display's hysteresis,
\* the region is one of the five; it is Below exactly when t < s - hb and
\* Above exactly when t > s + hb; it is InBandBelow for s - hb <= t < s and
\* InBandAbove for s < t <= s + hb.
C12_RegionRanges ==
  pc = "leds" =>
    LET t == filteredTempF
        s == setPointF
        hb == _hysteresisF \div 2
    IN  /\ hb >= 0
        /\ _region \in Regions
        /\ (_region = "Below" <=> t < s - hb)
        /\ (_region = "Above" <=> t > s + hb)
        /\ ((s - hb <= t /\ t < s) => _region = "InBandBelow")
        /\ ((s < t /\ t <= s + hb) => _region = "InBandAbove")

\* the temperature sits on the lower band edge and is shown as in band
C12_OnLowerEdge ==
  /\ pc = "leds"
  /\ filteredTempF = setPointF - _hysteresisF \div 2
  /\ setPointF # 72 * Scale
  /\ _region = "InBandBelow"

\* C13: the switch of updateLEDs gives every region its fixed combination of
\* (above, inBand, below): Below (0,0,1), InBandBelow (0,1,1), AtSetPoint
\* (0,1,0), InBandAbove (1,1,0), Above (1,0,0); and every call of updateLEDs
\* that writes the indicators leaves the three lines at the combination of
\* the current region.
C13_LinesOfRegion ==
  [][LET lines(r) == CASE r = "Below"       -> <<FALSE, FALSE, TRUE>>
                       [] r = "InBandBelow" -> <<FALSE, TRUE, TRUE>>
                       [] r = "AtSetPoint"  -> <<FALSE, TRUE, FALSE>>
                       [] r = "InBandAbove" -> <<TRUE, TRUE, FALSE>>
                       [] r = "Above"       -> <<TRUE, FALSE, FALSE>>
         shown(l) == <<l["LED_ABOVE_PIN"], l["LED_INBAND_PIN"], l["LED_BELOW_PIN"]>>
     IN  /\ \A r \in Regions : shown(LedLevels(r)) = lines(r)
         /\ wrote' = LedPins => shown(pin') = lines(_region)
    ]_vars

\* the indicators have just been written for a temperature that came down
\* from above the band into its lower half
C13_WroteInBandBelow ==
  /\ wrote = LedPins
  /\ _region = "InBandBelow"
  /\ ledWriteGap # NoValue
  /\ ledWriteGap >= LED_UPDATE_MS
  /\ pin["LED_BELOW_PIN"] /\ pin["LED_INBAND_PIN"] /\ ~pin["LED_ABOVE_PIN"]

\* C14: with hysteresis 2 and set-point 72, from heater OFF and a filtered
\* temperature of 72: the heater is OFF as long as every control tick so far
\* saw more than 71, and ON from the first tick that saw 71 or less for as
\* long as no later tick has seen 73 or more.
C14_HeatingScenario ==
  (HYST_F = 2 * Scale /\ setF \in {NoValue, 72 * Scale}) =>
    /\ drift = "warm" => ~heaterOn
    /\ drift = "cold" => heaterOn

\* switched on at 71 or below earlier, and held ON by a tick just below 73
C14_HeldJustBelow73 ==
  /\ "control" \in ran
  /\ setF = 72 * Scale
  /\ tempF = 73 * Scale - 1
  /\ drift = "cold"
  /\ heaterWas
  /\ heaterOn

\* C15: the set-point the display gets (setPointF) is always within
\* [50, 90], and so is the value readSetpointF returned to the control tick,
\* whatever count in 0..1023 the dial read.
C15_SetpointInRange ==
  /\ 50 * Scale <= setPointF /\ setPointF <= 90 * Scale
  /\ rawADC # NoValue =>
       /\ rawADC \in 0..1023
       /\ 50 * Scale <= setF /\ setF <= 90 * Scale

\* the dial at its top: both the returned value and the global are 90
C15_DialAtTop ==
  /\ rawADC = 1023
  /\ setF = 90 * Scale
  /\ setPointF = 90 * Scale

\* C16: a dial count of 0 yields MIN_SET_F and a count of 1023 yields
\* MAX_SET_F; at MID_RAW, which lies between the counts 511 and 512, both
\* segments yield MID_SET_F; and no higher count yields a lower set-point
\* than the count that was read.
C16_AnchorsAndMonotone ==
  rawADC # NoValue =>
    /\ rawADC = 0 => setF = MIN_SET_F
    /\ rawADC = FullScale => setF = MAX_SET_F
    /\ Segment(MIN_SET_F, MID_SET_F - MIN_SET_F, MID_RAW2, MID_RAW2) = MID_SET_F
    /\ Segment(MID_SET_F, MAX_SET_F - MID_SET_F, 0, 2 * FullScale - MID_RAW2) = MID_SET_F
    /\ \A r2 \in rawADC..FullScale : setF <= SetpointOf(r2)

\* a count inside the upper segment, strictly between two anchors
C16_InsideUpperSegment ==
  /\ rawADC = 768
  /\ setF > MID_SET_F
  /\ setF < MAX_SET_F
  /\ setF < SetpointOf(769)

\* C17: filteredTempF always lies between the temperature of 2.8 V and the
\* temperature of 0.2 V (the LM19 reads lower voltages at higher
\* temperatures), from its seed of 72 on and after every sample; and so
\* does every raw reading that enters the filter.
C17_FilterInSensorRange ==
  LET coldest == TempOfVolts(28000 * FullScale)
      hottest == TempOfVolts(2000 * FullScale)
  IN  /\ coldest < 72 * Scale /\ 72 * Scale < hottest
      /\ coldest <= filteredTempF /\ filteredTempF <= hottest
      /\ "sample" \in ran => (coldest <= tempFraw /\ tempFraw <= hottest)

\* the sensor line at the supply rail has pulled the filter below freezing
C17_PulledBelowFreezing ==
  /\ "sample" \in ran
  /\ sum = N_SAMPLES * 1023
  /\ tempFraw = TempOfVolts(28000 * FullScale)
  /\ filteredTempF < 32 * Scale

\* C18: a burst whose average maps to less than 0.2 V reads the temperature
\* of 0.2 V, one that maps to more than 2.8 V reads the temperature of
\* 2.8 V, and every burst of counts in 0..1023 is sampled and yields a
\* reading.  (The voltage is (sum/8) * 5/1023, so it is below 0.2 exactly
\* when 50 * sum < 2 * 8 * 1023.)
C18_VoltageClamp ==
  "sample" \in ran =>
    /\ sum \in 0..(N_SAMPLES * 1023)
    /\ 50 * sum < 2 * 8 * 1023 => tempFraw = TempOfVolts(2000 * FullScale)
    /\ 50 * sum > 28 * 8 * 1023 => tempFraw = TempOfVolts(28000 * FullScale)
    /\ tempFraw \in TempOfVolts(28000 * FullScale)..TempOfVolts(2000 * FullScale)

\* a burst just under 0.2 V reads the same as 0.2 V
C18_JustUnderLowLimit ==
  /\ "sample" \in ran
  /\ sum = 327
  /\ tempFraw = TempOfVolts(2000 * FullScale)

\* C19: a call of setDisplayState(temp, setpoint) leaves the region that the
\* comparisons give for (temp, setpoint, hysteresis), whatever the region,
\* the last-written region and the time were before; a call whose inputs are
\* those of the call before it (neither the sampling nor the control task
\* ran in between) leaves the region as it was; and the call changes no pin,
\* nor _lastRegion, nor _lastUpdate.
C19_RegionIsPure ==
  [][pc = "display" =>
       /\ _region' = RegionOf(filteredTempF, setPointF)
       /\ (ran \cap {"sample", "control"} = {}) => _region' = _region
       /\ pin' = pin
       /\ _lastRegion' = _lastRegion
       /\ _lastUpdate' = _lastUpdate
    ]_vars

\* back inside the band while the indicators still show Above
C19_BackInBandFromAbove ==
  /\ pc = "leds"
  /\ _region = "InBandAbove"
  /\ _lastRegion = "Above"
  /\ pin["LED_ABOVE_PIN"] /\ ~pin["LED_INBAND_PIN"]

\* C20: filteredTempF changes only in a step of the sampling task that
\* executes; heaterOn, the set-point (returned and global) and the SSR line
\* change only in a step of the control task that executes; the region
\* changes only in setDisplayState and the indicator lines only in
\* updateLEDs; and each last-run stamp changes only in its own task.
C20_SingleWriter ==
  [][/\ filteredTempF' # filteredTempF => (pc = "sample" /\ "sample" \in ran')
     /\ (heaterOn' # heaterOn \/ setPointF' # setPointF \/ setF' # setF
           \/ pin'["SSR_PIN"] # pin["SSR_PIN"])
          => (pc = "control" /\ "control" \in ran')
     /\ _region' # _region => pc = "display"
     /\ (\E p \in LedPins : pin'[p] # pin[p]) => (pc = "leds" /\ "leds" \in ran')
     /\ lastTempSampleMs' # lastTempSampleMs => pc = "sample"
     /\ lastControlMs' # lastControlMs => pc = "control"
     /\ _lastUpdate' # _lastUpdate => pc = "leds"
    ]_vars

\* an iteration in which all three tasks ran and each changed its own state
C20_AllThreeWrote ==
  /\ pc = "loop"
  /\ ran = Tasks
  /\ filteredTempF # SEED_TEMP_F
  /\ heaterOn /\ ~heaterWas
  /\ setPointF # 72 * Scale
  /\ wrote = LedPins
  /\ lastTempSampleMs = now /\ lastControlMs = now /\ _lastUpdate = now

\* C21: a task of loop() that is called before its interval has elapsed
\* changes no state variable and writes no pin: the sampling task below
\* TEMP_SAMPLE_MS, the control task below CONTROL_UPDATE_MS, and the status
\* display (setDisplayState and updateLEDs) below the display's interval.
C21_NotDueNoEffect ==
  [][/\ (pc = "sample" /\ ~SampleDue(now)) =>
          (UNCHANGED <<ctlVars, ledVars, pin>> /\ wrote' = {})
     /\ (pc = "control" /\ ~ControlDue(now)) =>
          (UNCHANGED <<ctlVars, ledVars, pin>> /\ wrote' = {})
     /\ (pc \in {"display", "leds"} /\ ~LedsDue(now)) =>
          (UNCHANGED <<ctlVars, ledVars, pin>> /\ wrote' = {})
    ]_vars

\* C22: when the raw span of the segment a count falls in is zero,
\* readSetpointF returns the lower anchor of that segment: MIN_SET_F in the
\* first segment (MID_RAW at 0), MID_SET_F in the second (MID_RAW at 1023);
\* the quotient by the span is not evaluated.
C22_ZeroSpanSegment ==
  (rawADC # NoValue /\ spanRaw = 0) =>
    /\ 2 * rawADC <= 0 => setF = MIN_SET_F
    /\ 2 * rawADC > 0 => (2 * rawADC > 2 * FullScale /\ setF = MID_SET_F)

\* a read above a MID_RAW that sits on the top of the dial
C22_UpperSegmentEmpty ==
  /\ rawADC = FullScale + 1
  /\ spanRaw = 0
  /\ setF = MID_SET_F

\* C23: from begin() on, once the classifier has run, every call of
\* updateLEDs that finds the update interval elapsed leaves lit exactly the
\* indicator lines of the current region (three-region class: below for
\* Below, inBand for InBand, above for Above).
C23_LinesShowRegion ==
  [][(CallUpdateLEDs3 /\ "display" \in ran /\ uptime - _lastUpdate >= LED_UPDATE_MS) =>
       /\ pin'["LED_BELOW_PIN"] = (_region = "Below")
       /\ pin'["LED_INBAND_PIN"] = (_region = "InBand")
       /\ pin'["LED_ABOVE_PIN"] = (_region = "Above")
    ]_vars

\* C24 as stated: the three-region updateLEDs writes the indicators on every
\* call that finds the region different from the last written one, however
\* little time has passed.
C24_NoTimeDebounce ==
  [][(CallUpdateLEDs3 /\ _region # _lastRegion) => wrote' = LedPins]_vars

\* C24, amended: the three-region updateLEDs writes the indicators exactly on
\* the calls that find both the update interval elapsed since the last call
\* that passed the gate (since reset, before the first) and the region
\* different from the last written one.
C24_GateAndChange ==
  [][CallUpdateLEDs3 =>
       LET since == IF ranAt["leds"] = NoValue THEN 0 ELSE ranAt["leds"]
       IN  wrote' = LedPins <=>
             (uptime - since >= LED_UPDATE_MS /\ _region # _lastRegion)
    ]_vars

\* a call 50 ms after the gate last passed: the region differs, nothing is written
C24_HeldBackByGate ==
  /\ now = clock
  /\ ranAt["leds"] # NoValue
  /\ uptime - ranAt["leds"] = 50
  /\ _region = "Above"
  /\ _lastRegion = "Below"
  /\ pin["LED_BELOW_PIN"] /\ ~pin["LED_ABOVE_PIN"]
  /\ wrote = {}

\* C25: while loop() comes round at least every PollMs ms, a computed region
\* that differs from the last written one has differed for less than
\* updateInterval + PollMs, and the first updateLEDs call that passes the
\* gate while it differs writes the lines of that region.
C25_ShownWithinBound ==
  /\ [](staleSince # NoValue => uptime - staleSince < LED_UPDATE_MS + PollMs)
  /\ [][(pc = "leds" /\ staleSince # NoValue /\ "leds" \in ran') =>
          /\ wrote' = LedPins
          /\ staleSince' = NoValue
          /\ \A p \in LedPins : pin'[p] = LedLevels(_region)[p]
       ]_vars

\* a region that changed between two gate passes is written at the second
C25_ShownAtNextGate ==
  /\ wrote = LedPins
  /\ "leds" \in ran
  /\ ledWriteGap # NoValue
  /\ ledWriteGap > LED_UPDATE_MS
  /\ ledWriteGap < 2 * LED_UPDATE_MS + PollMs
  /\ _lastRegion = _region
  /\ \A p \in LedPins : pin[p] = LedLevels(_region)[p]

\* C26: heaterOn and the SSR line change only in a step of the control task
\* that passes its gate, and such a step comes at least CONTROL_UPDATE_MS of
\* true time after the previous one, so two changes of the heater state are
\* at least CONTROL_UPDATE_MS apart.
C26_MinimumDwell ==
  [][(heaterOn' # heaterOn \/ pin'["SSR_PIN"] # pin["SSR_PIN"]) =>
       /\ pc = "control"
       /\ "control" \in ran'
       /\ ranAt["control"] # NoValue => uptime - ranAt["control"] >= CONTROL_UPDATE_MS
    ]_vars

\* the heater, switched on at one control tick, is switched off at the next
C26_OffOneTickAfterOn ==
  /\ "control" \in ran
  /\ ranGap["control"] = CONTROL_UPDATE_MS
  /\ heaterWas
  /\ ~heaterOn
  /\ ~pin["SSR_PIN"]

\* C27: until the control task first passes its gate heaterOn is false, the
\* SSR line is LOW and lastControlMs is 0, whatever the sampling task and the
\* display have done; with lastControlMs = 0 the gate is closed at every
\* now < CONTROL_UPDATE_MS.
C27_SafeStartup ==
  ranAt["control"] = NoValue =>
    /\ ~heaterOn
    /\ ~pin["SSR_PIN"]
    /\ lastControlMs = 0
    /\ \A t \in 0..(CONTROL_UPDATE_MS - 1) : ~ControlDue(t)

\* the first iteration: the sampling task has run, the control task has not yet
C27_SampledBeforeFirstTick ==
  /\ ranAt["control"] = NoValue
  /\ pc = "control"
  /\ "sample" \in ran
  /\ filteredTempF < SEED_TEMP_F
  /\ ~heaterOn
  /\ ~pin["SSR_PIN"]

\* C28: while loop() keeps coming round and the counter keeps advancing, each
\* of the sampling task, the control task and the display update passes its
\* gate again and again, and at the end of an iteration no task is left
\* whose interval had elapsed at the iteration's now.
C28_NoStarvation ==
  /\ []<>("sample" \in ran)
  /\ []<>("control" \in ran)
  /\ []<>("leds" \in ran)
  /\ [](pc = "loop" =>
          /\ Elapsed(now, lastTempSampleMs) < TEMP_SAMPLE_MS
          /\ Elapsed(now, lastControlMs) < CONTROL_UPDATE_MS
          /\ Elapsed(now, _lastUpdate) < LED_UPDATE_MS)

\* an iteration after the counter has wrapped in which all three tasks ran
C28_AllRanAfterWrap ==
  /\ pc = "loop"
  /\ ran = Tasks
  /\ now < CONTROL_UPDATE_MS
  /\ ranGap["control"] # NoValue
  /\ ranGap["control"] < 0

\* C29: allOff() drives the three indicator lines LOW and changes nothing
\* else (_region, _lastRegion, _lastUpdate and the SSR line are as before);
\* an updateLEDs call that finds the lines dark and the region equal to
\* _lastRegion leaves them dark.
C29_AllOffStaysDark ==
  [][/\ CallAllOff =>
          /\ \A p \in LedPins : ~pin'[p]
          /\ pin'["SSR_PIN"] = pin["SSR_PIN"]
          /\ UNCHANGED <<_region, _lastRegion, _lastUpdate>>
     /\ (CallUpdateLEDs /\ _region = _lastRegion /\ \A p \in LedPins : ~pin[p]) =>
          \A p \in LedPins : ~pin'[p]
    ]_vars

\* updateLEDs has passed its gate after allOff(): the region Below, written
\* before, is still current and no line is lit
C29_DarkAfterGatePass ==
  /\ \A p \in LedPins : ~pin[p]
  /\ _region = "Below"
  /\ _lastRegion = "Below"
  /\ wrote = {}
  /\ now = clock
  /\ ranAt["leds"] # NoValue
  /\ ranAt["leds"] > ledWriteAt
  /\ ledWriteAt > 0

\* C30: in the single-LED sketch, when a loop iteration ends with inDeadband
\* false the LED line is at the level of heaterOn; while inDeadband is true
\* the LED line changes level only LED_BLINK_MS or more after it last
\* changed level, and the blink state is toggled only LED_BLINK_MS or more
\* after it was last toggled.
C30_SolidOrBlinking ==
  /\ []((pc = "loop" /\ ~inDeadband) => pin["LED_PIN"] = heaterOn)
  /\ [][(inDeadband /\ pin'["LED_PIN"] # pin["LED_PIN"]) =>
          /\ pc = "blink"
          /\ ledToggleAt # NoValue => uptime - ledToggleAt >= LED_BLINK_MS
       ]_vars
  /\ [][ledBlinkState' # ledBlinkState =>
          /\ inDeadband
          /\ pin'["LED_PIN"] = ledBlinkState'
          /\ uptime - lastLedBlinkMs >= LED_BLINK_MS
       ]_vars

\* in the deadband with the heater on, the LED has just gone out, 500 ms
\* after it came on
C30_BlinkedOff ==
  /\ pc = "loop"
  /\ inDeadband
  /\ heaterOn
  /\ ~pin["LED_PIN"]
  /\ wrote = {"LED_PIN"}
  /\ ledToggleAt = uptime
  /\ lastLedBlinkMs = now

\* C31: a call of pollTestSwitch accepts at most one change of the button
\* state; the SSR line is at the level of LastButtonState; and the button
\* state and the SSR line change only together, in a call whose reads
\* include the new state, more than DEBOUNCE_MS after the previous accepted
\* change (after reset, before the first).
C31_Debounce ==
  /\ [](accepted <= 1)
  /\ [](pin["SSR_outPin"] = (LastButtonState = 1))
  /\ [][(LastButtonState' # LastButtonState \/ pin'["SSR_outPin"] # pin["SSR_outPin"]) =>
          /\ accepted' = 1
          /\ LastButtonState' # LastButtonState
          /\ LastButtonChangeTime' = currMillis'
          /\ uptime' - (IF ssrChangeAt = NoValue THEN 0 ELSE ssrChangeAt) > DEBOUNCE_MS
       ]_vars

\* the button is released again 51 ms after the press was accepted
C31_ReleasedAfter51 ==
  /\ accepted = 1
  /\ ssrChangeGap = DEBOUNCE_MS + 1
  /\ LastButtonState = 0
  /\ ~pin["SSR_outPin"]
  /\ wrote = {"SSR_outPin"}

=============================================================================
